---------------------------- MODULE Spec2Model ----------------------------
(***************************************************************************)
(* A model of the bin-diff demonstration program (test-program): the       *)
(* command-line driver (main.cpp), MathUtils (math_utils.cpp), the logger  *)
(* (logger.cpp) and trim of StringUtils (string_utils.cpp).                *)
(*                                                                         *)
(* Numbers keep their C++ widths.  An int is a TLA+ integer in             *)
(* IntMin..IntMax; no int operation of the model ever forms a value        *)
(* outside that range.  A long long is a pair of limbs [hi, lo] standing   *)
(* for hi * 2^16 + lo.  A double is a sign, a binary exponent and the 53   *)
(* bits of its significand.                                                *)
(***************************************************************************)
EXTENDS Integers, Sequences, FiniteSets

VARIABLES
    argv,        \* main: the command-line tokens argv[1..argc-1]
    pc,          \* the position of the running function
    i,           \* parse_args: the loop index (argv[i] is the next token)
    values,      \* the std::vector<int> (parse_args' result; a library call's argument)
    out,         \* standard output: the lines written so far
    s,           \* the Stats value returned by compute_stats
    increasing,  \* the value returned by is_strictly_increasing
    sum,         \* main: the running int sum
    it,          \* main: the position of the range-for over values
    calls,       \* the MathUtils / StringUtils functions called so far
    status,      \* the process: "running", "exit0" or "trapped"
    input,       \* trim: the argument string
    result       \* trim: the returned string

vars == <<argv, pc, i, values, out, s, increasing, sum, it, calls, status, input, result>>

---------------------------------------------------------------------------
(* Bounds of the model.                                                    *)

MaxArgs == 3
MaxLen == 4
MaxStrLen == 5

---------------------------------------------------------------------------
(* int: 32-bit two's complement.                                           *)

IntMax == 2147483647
IntMin == -IntMax - 1

(* long long: hi * Base + lo with 0 <= lo < Base.                          *)
Base == 2^16

LL(v) == [hi |-> v \div Base, lo |-> v % Base]

LLAdd(x, y) ==
    LET l == x.lo + y.lo
    IN  [hi |-> x.hi + y.hi + (l \div Base), lo |-> l % Base]

LLNeg(x) ==
    IF x.lo = 0 THEN [hi |-> -x.hi, lo |-> 0]
                ELSE [hi |-> -x.hi - 1, lo |-> Base - x.lo]

---------------------------------------------------------------------------
(* double: IEEE 754 binary64, the value (-1)^sgn * 0.man * 2^exp with man   *)
(* the Mant significand bits, most significant first; man[1] = 1 unless    *)
(* the value is zero.  The values of the program are far from the          *)
(* subnormal and the overflow range.                                       *)

Mant == 53

Zeros(n) == [j \in 1..n |-> 0]

DZero == [sgn |-> 0, exp |-> 0, man |-> Zeros(Mant)]

RECURSIVE Bits(_)
Bits(n) == IF n = 0 THEN <<>> ELSE Append(Bits(n \div 2), n % 2)

PadLeft(b, n) == Zeros(n - Len(b)) \o b

(* The bits of a non-negative long long, without leading zeros.            *)
MagBits(m) ==
    IF m.hi = 0 THEN Bits(m.lo) ELSE Bits(m.hi) \o PadLeft(Bits(m.lo), 16)

RECURSIVE LeadingZeros(_)
LeadingZeros(b) ==
    IF b = <<>> \/ Head(b) = 1 THEN 0 ELSE 1 + LeadingZeros(Tail(b))

RECURSIVE IncBits(_)
(* b + 1 on a bit string; a carry out of the top bit yields Len(b)+1 bits. *)
IncBits(b) ==
    IF b = <<>> THEN <<1>>
    ELSE IF b[Len(b)] = 0 THEN SubSeq(b, 1, Len(b) - 1) \o <<1>>
    ELSE LET c == IncBits(SubSeq(b, 1, Len(b) - 1))
         IN  c \o <<0>>

(* Round to nearest, ties to even: sig is a bit string with sig[1] = 1     *)
(* standing for 0.sig * 2^e, sticky says that non-zero bits follow it.     *)
RoundNearestEven(sgn, e, sig, sticky) ==
    IF Len(sig) <= Mant
    THEN [sgn |-> sgn, exp |-> e, man |-> sig \o Zeros(Mant - Len(sig))]
    ELSE LET keep == SubSeq(sig, 1, Mant)
             rnd  == sig[Mant + 1]
             rest == sticky \/ \E j \in (Mant + 2)..Len(sig) : sig[j] = 1
             up   == rnd = 1 /\ (rest \/ keep[Mant] = 1)
             inc  == IncBits(keep)
         IN  IF ~up THEN [sgn |-> sgn, exp |-> e, man |-> keep]
             ELSE IF Len(inc) = Mant THEN [sgn |-> sgn, exp |-> e, man |-> inc]
             ELSE [sgn |-> sgn, exp |-> e + 1, man |-> SubSeq(inc, 1, Mant)]

(* static_cast<double>(long long)                                          *)
LLToDouble(x) ==
    LET neg == x.hi < 0
        mb  == MagBits(IF neg THEN LLNeg(x) ELSE x)
    IN  IF mb = <<>> THEN DZero
        ELSE RoundNearestEven(IF neg THEN 1 ELSE 0, Len(mb), mb, FALSE)

(* The conversion int -> double of an assignment (always exact).           *)
IntToDouble(v) == LLToDouble(LL(v))

RECURSIVE LongDiv(_, _, _, _)
(* Binary long division of the bit string b by n > 0: the quotient bits    *)
(* (as many as b has) and the remainder.                                   *)
LongDiv(b, n, r, q) ==
    IF b = <<>> THEN [q |-> q, r |-> r]
    ELSE LET t == 2 * r + Head(b)
         IN  IF t >= n THEN LongDiv(Tail(b), n, t - n, Append(q, 1))
                       ELSE LongDiv(Tail(b), n, t, Append(q, 0))

(* double / size_t: the size is converted to double exactly, and the       *)
(* quotient is the exact quotient rounded to nearest-even.                 *)
DDivSize(x, n) ==
    IF x.man[1] = 0 THEN DZero
    ELSE LET k  == 1 + Len(Bits(n))
             d  == LongDiv(x.man \o Zeros(k), n, 0, <<>>)
             z  == LeadingZeros(d.q)
             sg == SubSeq(d.q, z + 1, Len(d.q))
         IN  RoundNearestEven(x.sgn, x.exp - z, sg, d.r # 0)

---------------------------------------------------------------------------
(* MathUtils (math_utils.cpp).                                             *)

(* a + b and a * b on int are undefined when the exact result is not an    *)
(* int.  The exact result is never formed outside IntMin..IntMax.          *)
AddFits(a, b) ==
    IF b >= 0 THEN a <= IntMax - b ELSE a >= IntMin - b

(* a + b modulo 2^32, in IntMin..IntMax.                                   *)
WrapAdd(a, b) ==
    IF AddFits(a, b) THEN a + b
    ELSE IF b >= 0 THEN (a - IntMax - 1) + (b - IntMax - 1)
    ELSE (a + IntMax + 1) + (b + IntMax + 1)

MulFits(a, b) ==
    IF a = 0 \/ b = 0 THEN TRUE
    ELSE IF b = -1 THEN a # IntMin
    ELSE IF b > 0
         THEN a <= IntMax \div b /\ a >= (IntMin + b - 1) \div b
    ELSE IF b = IntMin THEN a = 1
    ELSE LET nb == -b
         IN  /\ a >= (nb - 1 - IntMax) \div nb
             /\ a <= (IntMax \div nb) + (IF IntMax % nb = nb - 1 THEN 1 ELSE 0)

(* a * b modulo 2^32, in IntMin..IntMax, by 16-bit limbs: only the low    *)
(* product and the low 16 bits of the cross products reach the result.    *)
WrapMul(a, b) ==
    LET x     == LL(a)
        y     == LL(b)
        a0    == x.lo % 256
        a1    == x.lo \div 256
        p1    == a1 * y.lo
        low   == LLAdd(LL(a0 * y.lo),
                       [hi |-> p1 \div 256, lo |-> (p1 % 256) * 256])
        cross == (((x.hi * y.lo) % Base) + ((x.lo * y.hi) % Base)) % Base
        h     == (low.hi + cross) % Base
    IN  (IF h >= Base \div 2 THEN h - Base ELSE h) * Base + low.lo

Returns(v) == [trap |-> FALSE, val |-> v]
Traps == [trap |-> TRUE, val |-> 0]

(* What a signed overflow can do: the two's-complement code of an          *)
(* ordinary build returns the wrapped value, a trapping build (-ftrapv, a  *)
(* sanitizer that does not recover) ends the process.                      *)
SignedOverflow(wrapped) == {Returns(wrapped), Traps}

(* int add(int a, int b): the outcomes of a call.                          *)
add(a, b) ==
    IF AddFits(a, b) THEN {Returns(a + b)} ELSE SignedOverflow(WrapAdd(a, b))

(* int multiply(int a, int b): the outcomes of a call.                     *)
multiply(a, b) ==
    IF MulFits(a, b) THEN {Returns(a * b)} ELSE SignedOverflow(WrapMul(a, b))

(* values[idx] of a std::vector: indices from 0.                           *)
At(v, idx) == v[idx + 1]

(* A 32-bit accumulator in place of the long long one.                     *)
AccumulateInt(acc, e) ==
    LET w == LLAdd(acc, LL(e))
    IN  [hi |-> ((w.hi + Base \div 2) % Base) - Base \div 2, lo |-> w.lo]

(* sum += v, on the long long sum.                                         *)
Accumulate(acc, e) == LLAdd(acc, LL(e))

RECURSIVE StatsLoop(_, _, _, _, _)
(* The range-for of compute_stats, from element k on.                      *)
StatsLoop(v, k, acc, minVal, maxVal) ==
    IF k >= Len(v) THEN [sum |-> acc, minVal |-> minVal, maxVal |-> maxVal]
    ELSE LET e == At(v, k)
         IN  StatsLoop(v, k + 1, Accumulate(acc, e),
                       IF e < minVal THEN e ELSE minVal,
                       IF e > maxVal THEN e ELSE maxVal)

ZeroStats == [mean |-> DZero, min |-> DZero, max |-> DZero]

(* minVal and maxVal started at 0 in place of the ends of the int range.   *)
compute_stats_from_zero(v) ==
    IF Len(v) = 0 THEN ZeroStats
    ELSE LET r == StatsLoop(v, 0, LL(0), 0, 0)
         IN  [mean |-> DDivSize(LLToDouble(r.sum), Len(v)),
              min  |-> IntToDouble(r.minVal),
              max  |-> IntToDouble(r.maxVal)]

compute_stats(v) ==
    IF Len(v) = 0 THEN ZeroStats
    ELSE LET r == StatsLoop(v, 0, LL(0), IntMax, IntMin)
         IN  [mean |-> DDivSize(LLToDouble(r.sum), Len(v)),
              min  |-> IntToDouble(r.minVal),
              max  |-> IntToDouble(r.maxVal)]

RECURSIVE IncreasingLoop(_, _)
(* The for loop of is_strictly_increasing, from index idx on.              *)
IncreasingLoop(v, idx) ==
    IF ~(idx < Len(v)) THEN TRUE
    ELSE IF At(v, idx) <= At(v, idx - 1) THEN FALSE
    ELSE IncreasingLoop(v, idx + 1)

(* The scan started at index 1: the first pair compared as well.           *)
is_strictly_increasing_from_1(v) ==
    IF Len(v) <= 1 THEN TRUE ELSE IncreasingLoop(v, 1)

is_strictly_increasing(v) ==
    IF Len(v) <= 1 THEN TRUE ELSE IncreasingLoop(v, 2)

---------------------------------------------------------------------------
(* StringUtils (string_utils.cpp): a std::string is a sequence of          *)
(* characters, positions from 0.                                           *)

npos == -1

TrimSet == {" ", "\t", "\n", "\r"}

RECURSIVE find_first_not_of(_, _, _)
find_first_not_of(str, chars, pos) ==
    IF pos >= Len(str) THEN npos
    ELSE IF str[pos + 1] \notin chars THEN pos
    ELSE find_first_not_of(str, chars, pos + 1)

RECURSIVE find_last_not_of(_, _, _)
find_last_not_of(str, chars, pos) ==
    IF pos < 0 THEN npos
    ELSE IF str[pos + 1] \notin chars THEN pos
    ELSE find_last_not_of(str, chars, pos - 1)

(* str.substr(pos, n) for pos <= size: at most n characters from pos.      *)
substr(str, pos, n) ==
    SubSeq(str, pos + 1, IF pos + n < Len(str) THEN pos + n ELSE Len(str))

(* The trailing characters left in place.                                  *)
trim_leading_only(str) ==
    LET start == find_first_not_of(str, TrimSet, 0)
    IN  IF start = npos THEN <<>> ELSE substr(str, start, Len(str) - start)

trim(str) ==
    LET start == find_first_not_of(str, TrimSet, 0)
    IN  IF start = npos THEN <<>>
        ELSE LET end == find_last_not_of(str, TrimSet, Len(str) - 1)
             IN  substr(str, start, end - start + 1)

---------------------------------------------------------------------------
(* Logger (logger.cpp): a line of standard output is its leading text and  *)
(* what follows it.                                                        *)

log_with_prefix(prefix, msg) == [prefix |-> prefix, val |-> msg]

(* VERBOSE_LOGS is a build-time flag.                                      *)
log_info(verbose, msg) ==
    IF verbose THEN log_with_prefix("[INFORMATION] ", msg)
               ELSE log_with_prefix("[INFO] ", msg)

log_warning(msg) == log_with_prefix("[WARN] ", msg)

---------------------------------------------------------------------------
(* std::stoi(const std::string&) as parse_args uses it (base 10, no idx):  *)
(* strtol's scan (leading white space, an optional sign, the longest run   *)
(* of digits; what follows the digits is ignored), std::invalid_argument   *)
(* when there is no digit and std::out_of_range when the value is no int.  *)

Digits == <<"0", "1", "2", "3", "4", "5", "6", "7", "8", "9">>

isdigit(c) == \E d \in 1..10 : Digits[d] = c

DigitVal(c) == (CHOOSE d \in 1..10 : Digits[d] = c) - 1

isspace(c) == c \in {" ", "\t", "\n", "\r", "\f"}

RECURSIVE SkipSpace(_, _)
(* The first position from p (from 1) that holds no white space.           *)
SkipSpace(str, p) ==
    IF p <= Len(str) /\ isspace(str[p]) THEN SkipSpace(str, p + 1) ELSE p

RECURSIVE ScanDigits(_, _, _, _, _)
(* The digits from position p on, accumulated as the negated magnitude     *)
(* acc; big says that the magnitude has passed 2^31.                       *)
ScanDigits(str, p, acc, any, big) ==
    IF p > Len(str) \/ ~isdigit(str[p])
    THEN [acc |-> acc, any |-> any, big |-> big]
    ELSE LET d == DigitVal(str[p])
         IN  IF big \/ acc < -(IntMax \div 10) \/ acc * 10 < IntMin + d
             THEN ScanDigits(str, p + 1, acc, TRUE, TRUE)
             ELSE ScanDigits(str, p + 1, acc * 10 - d, TRUE, FALSE)

Thrown(e) == [thrown |-> e, val |-> 0]

(* A conversion that clamps to the int range in place of throwing          *)
(* std::out_of_range.                                                      *)
stoi_truncating(str) ==
    LET p   == SkipSpace(str, 1)
        neg == p <= Len(str) /\ str[p] = "-"
        q   == IF p <= Len(str) /\ str[p] \in {"-", "+"} THEN p + 1 ELSE p
        r   == ScanDigits(str, q, 0, FALSE, FALSE)
    IN  IF ~r.any THEN Thrown("invalid_argument")
        ELSE IF r.big THEN [thrown |-> "none", val |-> IF neg THEN IntMin ELSE IntMax]
        ELSE IF neg THEN [thrown |-> "none", val |-> r.acc]
        ELSE IF r.acc = IntMin THEN [thrown |-> "none", val |-> IntMax]
        ELSE [thrown |-> "none", val |-> -r.acc]

stoi(str) ==
    LET p   == SkipSpace(str, 1)
        neg == p <= Len(str) /\ str[p] = "-"
        q   == IF p <= Len(str) /\ str[p] \in {"-", "+"} THEN p + 1 ELSE p
        r   == ScanDigits(str, q, 0, FALSE, FALSE)
    IN  IF ~r.any THEN Thrown("invalid_argument")
        ELSE IF r.big THEN Thrown("out_of_range")
        ELSE IF neg THEN [thrown |-> "none", val |-> r.acc]
        ELSE IF r.acc = IntMin THEN Thrown("out_of_range")
        ELSE [thrown |-> "none", val |-> -r.acc]

---------------------------------------------------------------------------
(* The inputs.                                                             *)

(* Command-line tokens: 1, three, 4x (digits, then a letter), " +7" (white *)
(* space and a sign before the digit), and the four literals around the    *)
(* ends of the int range.                                                  *)
ArgTokens ==
    { <<"1">>, <<"t", "h", "r", "e", "e">>, <<"4", "x">>, <<" ", "+", "7">>,
      <<"2", "1", "4", "7", "4", "8", "3", "6", "4", "7">>,
      <<"2", "1", "4", "7", "4", "8", "3", "6", "4", "8">>,
      <<"-", "2", "1", "4", "7", "4", "8", "3", "6", "4", "8">>,
      <<"-", "2", "1", "4", "7", "4", "8", "3", "6", "4", "9">> }

ArgLists == UNION {[1..n -> ArgTokens] : n \in 0..MaxArgs}

(* Elements of the vectors handed to MathUtils directly.                   *)
IntVals == {IntMin, -1, 1, 2, 3, 5, IntMax}

Vectors == UNION {[1..n -> IntVals] : n \in 0..MaxLen}

Chars == {" ", "\t", "\n", "\r", "a", "b"}

Strings == UNION {[1..n -> Chars] : n \in 0..MaxStrLen}

---------------------------------------------------------------------------
(* The driver (main.cpp).  argv holds argv[1..argc-1].                     *)

argc == Len(argv) + 1

Usage == "No numbers provided. Example: ./demo 1 2 3 4"

Write(prefix, v) == Append(out, [prefix |-> prefix, val |-> v])

Init ==
    /\ argv \in ArgLists
    /\ pc = "parse_args"
    /\ i = 1
    /\ values = <<>>
    /\ out = <<>>
    /\ s = ZeroStats
    /\ increasing = FALSE
    /\ sum = 0
    /\ it = 0
    /\ calls = {}
    /\ status = "running"
    /\ input = <<>>
    /\ result = <<>>

(* parse_args, line 12: the token converts and is pushed.                  *)
parse_args_try ==
    /\ pc = "parse_args"
    /\ i < argc
    /\ stoi(argv[i]).thrown = "none"
    /\ values' = Append(values, stoi(argv[i]).val)
    /\ i' = i + 1
    /\ UNCHANGED <<argv, pc, out, s, increasing, sum, it, calls, status, input, result>>

(* The catch block pushing a placeholder besides logging.                  *)
parse_args_catch_placeholder ==
    /\ pc = "parse_args"
    /\ i < argc
    /\ stoi(argv[i]).thrown # "none"
    /\ out' = Append(out, log_warning(<<"Ignoring invalid number: ", argv[i]>>))
    /\ values' = Append(values, 0)
    /\ i' = i + 1
    /\ UNCHANGED <<argv, pc, s, increasing, sum, it, calls, status, input, result>>

(* The warning put in front of the lines written so far.                  *)
parse_args_catch_prepend ==
    /\ pc = "parse_args"
    /\ i < argc
    /\ stoi(argv[i]).thrown # "none"
    /\ out' = <<log_warning(<<"Ignoring invalid number: ", argv[i]>>)>> \o out
    /\ i' = i + 1
    /\ UNCHANGED <<argv, pc, values, s, increasing, sum, it, calls, status, input, result>>

(* parse_args, lines 13-15: std::stoi threw, catch (...) logs the warning. *)
parse_args_catch ==
    /\ pc = "parse_args"
    /\ i < argc
    /\ stoi(argv[i]).thrown # "none"
    /\ out' = Append(out, log_warning(<<"Ignoring invalid number: ", argv[i]>>))
    /\ i' = i + 1
    /\ UNCHANGED <<argv, pc, values, s, increasing, sum, it, calls, status, input, result>>

(* parse_args, line 17.                                                    *)
parse_args_return ==
    /\ pc = "parse_args"
    /\ ~(i < argc)
    /\ pc' = "main_23"
    /\ UNCHANGED <<argv, i, values, out, s, increasing, sum, it, calls, status, input, result>>

(* The early return left out: the hint is logged and main goes on.         *)
main_no_numbers_no_return ==
    /\ pc = "main_23"
    /\ Len(values) = 0
    /\ \E verbose \in BOOLEAN : out' = Append(out, log_info(verbose, Usage))
    /\ s' = compute_stats(values)
    /\ calls' = calls \cup {"compute_stats"}
    /\ pc' = "main_30"
    /\ UNCHANGED <<argv, i, values, increasing, sum, it, status, input, result>>

(* main, lines 23-26.                                                      *)
main_no_numbers ==
    /\ pc = "main_23"
    /\ Len(values) = 0
    /\ \E verbose \in BOOLEAN : out' = Append(out, log_info(verbose, Usage))
    /\ status' = "exit0"
    /\ pc' = "done"
    /\ UNCHANGED <<argv, i, values, s, increasing, sum, it, calls, input, result>>

(* main, line 28.                                                          *)
main_compute_stats ==
    /\ pc = "main_23"
    /\ Len(values) # 0
    /\ s' = compute_stats(values)
    /\ calls' = calls \cup {"compute_stats"}
    /\ pc' = "main_30"
    /\ UNCHANGED <<argv, i, values, out, increasing, sum, it, status, input, result>>

(* main, lines 30-33.                                                      *)
main_print_count ==
    /\ pc = "main_30"
    /\ out' = Write("Count: ", Len(values))
    /\ pc' = "main_31"
    /\ UNCHANGED <<argv, i, values, s, increasing, sum, it, calls, status, input, result>>

main_print_mean ==
    /\ pc = "main_31"
    /\ out' = Write("Mean:  ", s.mean)
    /\ pc' = "main_32"
    /\ UNCHANGED <<argv, i, values, s, increasing, sum, it, calls, status, input, result>>

main_print_min ==
    /\ pc = "main_32"
    /\ out' = Write("Min:   ", s.min)
    /\ pc' = "main_33"
    /\ UNCHANGED <<argv, i, values, s, increasing, sum, it, calls, status, input, result>>

main_print_max ==
    /\ pc = "main_33"
    /\ out' = Write("Max:   ", s.max)
    /\ pc' = "main_35"
    /\ UNCHANGED <<argv, i, values, s, increasing, sum, it, calls, status, input, result>>

(* main, lines 35-36.                                                      *)
main_is_strictly_increasing ==
    /\ pc = "main_35"
    /\ increasing' = is_strictly_increasing(values)
    /\ calls' = calls \cup {"is_strictly_increasing"}
    /\ pc' = "main_36"
    /\ UNCHANGED <<argv, i, values, out, s, sum, it, status, input, result>>

main_print_increasing ==
    /\ pc = "main_36"
    /\ out' = Write("Strictly increasing: ", IF increasing THEN "YES" ELSE "NO")
    /\ pc' = "main_38"
    /\ UNCHANGED <<argv, i, values, s, increasing, sum, it, calls, status, input, result>>

(* main, lines 38-39: int sum = 0 and the start of the range-for.          *)
main_sum_init ==
    /\ pc = "main_38"
    /\ sum' = 0
    /\ it' = 0
    /\ pc' = "main_39"
    /\ UNCHANGED <<argv, i, values, out, s, increasing, calls, status, input, result>>

(* main, line 40: sum = add(sum, v), add returning.                        *)
main_sum_add ==
    /\ pc = "main_39"
    /\ it < Len(values)
    /\ \E o \in add(sum, At(values, it)) : ~o.trap /\ sum' = o.val
    /\ it' = it + 1
    /\ calls' = calls \cup {"add"}
    /\ UNCHANGED <<argv, pc, i, values, out, s, increasing, status, input, result>>

(* main, line 40: the addition overflows and the build traps.              *)
main_sum_add_trap ==
    /\ pc = "main_39"
    /\ it < Len(values)
    /\ \E o \in add(sum, At(values, it)) : o.trap
    /\ calls' = calls \cup {"add"}
    /\ status' = "trapped"
    /\ pc' = "aborted"
    /\ UNCHANGED <<argv, i, values, out, s, increasing, sum, it, input, result>>

(* main, line 39: the range-for ends.                                      *)
main_sum_done ==
    /\ pc = "main_39"
    /\ ~(it < Len(values))
    /\ pc' = "main_43"
    /\ UNCHANGED <<argv, i, values, out, s, increasing, sum, it, calls, status, input, result>>

(* main, line 43.                                                          *)
main_print_sum ==
    /\ pc = "main_43"
    /\ out' = Write("Sum via add(): ", sum)
    /\ pc' = "main_44"
    /\ UNCHANGED <<argv, i, values, s, increasing, sum, it, calls, status, input, result>>

(* main, line 44: multiply(sum, 2) returning.                              *)
main_print_doubled ==
    /\ pc = "main_44"
    /\ \E o \in multiply(sum, 2) :
          ~o.trap /\ out' = Write("Sum * 2 via multiply(): ", o.val)
    /\ calls' = calls \cup {"multiply"}
    /\ pc' = "main_46"
    /\ UNCHANGED <<argv, i, values, s, increasing, sum, it, status, input, result>>

(* main, line 44: the multiplication overflows and the build traps.        *)
main_print_doubled_trap ==
    /\ pc = "main_44"
    /\ \E o \in multiply(sum, 2) : o.trap
    /\ calls' = calls \cup {"multiply"}
    /\ status' = "trapped"
    /\ pc' = "aborted"
    /\ UNCHANGED <<argv, i, values, out, s, increasing, sum, it, input, result>>

(* main, line 46.                                                          *)
main_return ==
    /\ pc = "main_46"
    /\ status' = "exit0"
    /\ pc' = "done"
    /\ UNCHANGED <<argv, i, values, out, s, increasing, sum, it, calls, input, result>>

Next ==
    \/ parse_args_try
    \/ parse_args_catch
    \/ parse_args_return
    \/ main_no_numbers
    \/ main_compute_stats
    \/ main_print_count
    \/ main_print_mean
    \/ main_print_min
    \/ main_print_max
    \/ main_is_strictly_increasing
    \/ main_print_increasing
    \/ main_sum_init
    \/ main_sum_add
    \/ main_sum_add_trap
    \/ main_sum_done
    \/ main_print_sum
    \/ main_print_doubled
    \/ main_print_doubled_trap
    \/ main_return

Spec == Init /\ [][Next]_vars

---------------------------------------------------------------------------
(* MathUtils called directly on any vector.                                *)

InitMath ==
    /\ values \in Vectors
    /\ pc = "lib"
    /\ argv = <<>>
    /\ i = 1
    /\ out = <<>>
    /\ s = ZeroStats
    /\ increasing = FALSE
    /\ sum = 0
    /\ it = 0
    /\ calls = {}
    /\ status = "running"
    /\ input = <<>>
    /\ result = <<>>

call_compute_stats ==
    /\ pc = "lib"
    /\ "compute_stats" \notin calls
    /\ s' = compute_stats(values)
    /\ calls' = calls \cup {"compute_stats"}
    /\ UNCHANGED <<argv, pc, i, values, out, increasing, sum, it, status, input, result>>

call_is_strictly_increasing ==
    /\ pc = "lib"
    /\ "is_strictly_increasing" \notin calls
    /\ increasing' = is_strictly_increasing(values)
    /\ calls' = calls \cup {"is_strictly_increasing"}
    /\ UNCHANGED <<argv, pc, i, values, out, s, sum, it, status, input, result>>

NextMath == call_compute_stats \/ call_is_strictly_increasing

SpecMath == InitMath /\ [][NextMath]_vars

---------------------------------------------------------------------------
(* trim called directly on any string.                                     *)

InitString ==
    /\ input \in Strings
    /\ pc = "lib"
    /\ argv = <<>>
    /\ i = 1
    /\ values = <<>>
    /\ out = <<>>
    /\ s = ZeroStats
    /\ increasing = FALSE
    /\ sum = 0
    /\ it = 0
    /\ calls = {}
    /\ status = "running"
    /\ result = <<>>

call_trim ==
    /\ pc = "lib"
    /\ "trim" \notin calls
    /\ result' = trim(input)
    /\ calls' = calls \cup {"trim"}
    /\ UNCHANGED <<argv, pc, i, values, out, s, increasing, sum, it, status, input>>

NextString == call_trim

SpecString == InitString /\ [][NextString]_vars

---------------------------------------------------------------------------
(* Vocabulary of the properties.                                           *)

Range(q) == {q[k] : k \in 1..Len(q)}

Smallest(q) == CHOOSE x \in Range(q) : \A y \in Range(q) : x <= y

Largest(q) == CHOOSE x \in Range(q) : \A y \in Range(q) : x >= y

RECURSIVE SeqSum(_)
SeqSum(q) == IF q = <<>> THEN 0 ELSE Head(q) + SeqSum(Tail(q))

(* The exact sum of a vector of ints, as a long long: the limbs are summed *)
(* apart and carried once.                                                 *)
ExactSum(q) ==
    LET h == SeqSum([k \in 1..Len(q) |-> q[k] \div Base])
        l == SeqSum([k \in 1..Len(q) |-> q[k] % Base])
    IN  [hi |-> h + (l \div Base), lo |-> l % Base]

(* x * n for a small n >= 0.                                               *)
LLTimes(x, n) == [hi |-> x.hi * n + ((x.lo * n) \div Base), lo |-> (x.lo * n) % Base]

(* Order on long long and on double values.                               *)
LLLess(x, y) == x.hi < y.hi \/ (x.hi = y.hi /\ x.lo < y.lo)

LLLeq(x, y) == x = y \/ LLLess(x, y)

DIsZero(x) == x.man[1] = 0

LexLess(a, b) ==
    \E j \in 1..Mant : a[j] < b[j] /\ \A h \in 1..(j - 1) : a[h] = b[h]

MagLess(x, y) ==
    IF DIsZero(y) THEN FALSE
    ELSE IF DIsZero(x) THEN TRUE
    ELSE x.exp < y.exp \/ (x.exp = y.exp /\ LexLess(x.man, y.man))

(* x < y and x <= y on doubles (no NaN arises).                            *)
DLess(x, y) ==
    IF DIsZero(x) /\ DIsZero(y) THEN FALSE
    ELSE IF x.sgn = 1 /\ ~DIsZero(x)
         THEN IF y.sgn = 1 /\ ~DIsZero(y) THEN MagLess(y, x) ELSE TRUE
         ELSE IF y.sgn = 1 /\ ~DIsZero(y) THEN FALSE ELSE MagLess(x, y)

DLeq(x, y) == ~DLess(y, x)

Called(f) == f \in calls

Terminated == pc \in {"done", "aborted"}

(* parse_args: the tokens handled so far.                                  *)
Processed == IF pc = "parse_args" THEN i - 1 ELSE Len(argv)

Handled == SubSeq(argv, 1, Processed)

Parses(tok) == stoi(tok).thrown = "none"

Fails(tok) == ~Parses(tok)

IsWarning(l) == l.prefix = "[WARN] "

Warnings == SelectSeq(out, IsWarning)

WarnedTokens == [k \in 1..Len(Warnings) |-> Warnings[k].val[2]]

IsHint(l) == l.prefix \in {"[INFO] ", "[INFORMATION] "} /\ l.val = Usage

ReportOrder ==
    << "Count: ", "Mean:  ", "Min:   ", "Max:   ", "Strictly increasing: ",
       "Sum via add(): ", "Sum * 2 via multiply(): " >>

IsReport(l) == l.prefix \in Range(ReportOrder)

Report == SelectSeq(out, IsReport)

(* The left fold of two's-complement addition over q[1..n], from 0.        *)
RECURSIVE WrapFold(_, _)
WrapFold(q, n) == IF n = 0 THEN 0 ELSE WrapAdd(WrapFold(q, n - 1), q[n])

(* The left fold stays in the int range at every step.                     *)
RECURSIVE FoldFits(_, _)
FoldFits(q, n) ==
    n = 0 \/ (FoldFits(q, n - 1) /\ AddFits(WrapFold(q, n - 1), q[n]))

(* A decimal literal (an optional sign, then digits only) whose value is   *)
(* not an int: by length and digit order, without computing the value.     *)
IsLiteral(tok) ==
    LET body == IF tok # <<>> /\ tok[1] \in {"-", "+"} THEN Tail(tok) ELSE tok
    IN  body # <<>> /\ \A k \in 1..Len(body) : isdigit(body[k])

DigitStringLess(a, b) ==
    \/ Len(a) < Len(b)
    \/ /\ Len(a) = Len(b)
       /\ \E k \in 1..Len(a) :
             /\ DigitVal(a[k]) < DigitVal(b[k])
             /\ \A h \in 1..(k - 1) : a[h] = b[h]

DenotesOutOfRange(tok) ==
    /\ IsLiteral(tok)
    /\ LET neg   == tok[1] = "-"
           body  == IF tok[1] \in {"-", "+"} THEN Tail(tok) ELSE tok
           z     == LeadingZeros([k \in 1..Len(body) |-> IF body[k] = "0" THEN 0 ELSE 1])
           mag   == SubSeq(body, z + 1, Len(body))
           limit == IF neg THEN <<"2", "1", "4", "7", "4", "8", "3", "6", "4", "8">>
                           ELSE <<"2", "1", "4", "7", "4", "8", "3", "6", "4", "7">>
       IN  DigitStringLess(limit, mag)

---------------------------------------------------------------------------
(* C1: is_strictly_increasing(v) is true exactly when no index i with      *)
(* 2 <= i <= len(v)-1 has v[i] <= v[i-1]; the pair (v[0], v[1]) is never   *)
(* compared, so every vector of length 0, 1 or 2 yields true, [5,1,2,3]    *)
(* yields true and [1,2,2,3] yields false.                                 *)
C1_SkipsFirstPair ==
    Called("is_strictly_increasing") =>
        /\ increasing <=>
              ~\E idx \in 2..(Len(values) - 1) : At(values, idx) <= At(values, idx - 1)
        /\ (Len(values) <= 2 => increasing)
        /\ (values = <<5, 1, 2, 3>> => increasing)
        /\ (values = <<1, 2, 2, 3>> => ~increasing)

C1_Witness ==
    /\ Called("is_strictly_increasing")
    /\ values = <<5, 1, 2, 3>>
    /\ increasing

C3_StatsMatchReference ==
    Called("compute_stats") =>
        IF values = <<>>
        THEN DIsZero(s.mean) /\ DIsZero(s.min) /\ DIsZero(s.max)
        ELSE /\ s.min = IntToDouble(Smallest(values))
             /\ s.max = IntToDouble(Largest(values))
             /\ s.mean = DDivSize(LLToDouble(ExactSum(values)), Len(values))

C3_Witness ==
    /\ Called("compute_stats")
    /\ values = <<IntMax, IntMax, 1>>
    /\ ExactSum(values) = [hi |-> Base - 1, lo |-> Base - 1]
    /\ s.min = IntToDouble(1)
    /\ s.max = IntToDouble(IntMax)
    /\ DLess(IntToDouble(IntMax \div 2), s.mean)

(* C4: parse_args handles each token once, with one of two outcomes: its   *)
(* value is appended and nothing is logged, or one warning naming it is    *)
(* logged and nothing is appended.  The vector is the values of the        *)
(* parseable tokens in argument order, and its length plus the number of   *)
(* warnings is the number of tokens handled.                               *)
C4_EachTokenHandledOnce ==
    LET good == SelectSeq(Handled, Parses)
        bad  == SelectSeq(Handled, Fails)
    IN  /\ values = [k \in 1..Len(good) |-> stoi(good[k]).val]
        /\ Warnings = [k \in 1..Len(bad) |->
                          [prefix |-> "[WARN] ",
                           val |-> <<"Ignoring invalid number: ", bad[k]>>]]
        /\ Len(values) + Len(Warnings) = Processed

C4_Witness ==
    /\ pc = "main_23"
    /\ Len(argv) = 3
    /\ Len(values) = 2
    /\ Len(Warnings) = 1
    /\ Fails(argv[2])

(* C5: the warning lines appear on standard output in the order of their   *)
(* tokens on the command line, and all of them before the first line of    *)
(* the report or the usage hint: no warning follows another line.          *)
C5_WarningsInOrderBeforeReport ==
    /\ WarnedTokens = SelectSeq(Handled, Fails)
    /\ \A k \in 1..Len(out) : IsWarning(out[k]) => \A h \in 1..k : IsWarning(out[h])
    /\ (pc = "parse_args" => Len(Warnings) = Len(out))

C5_Witness ==
    /\ pc = "done"
    /\ Len(Warnings) = 2
    /\ WarnedTokens[1] # WarnedTokens[2]
    /\ Len(Report) = 7
    /\ IsWarning(out[2]) /\ ~IsWarning(out[3])

(* C6: whenever a token parses, the program writes the seven report lines  *)
(* once each and in order (Count the length of the vector, YES exactly     *)
(* when is_strictly_increasing returns true), and every run ends with exit *)
(* status 0.                                                               *)
C6_SevenLinesAndExitZero ==
    Terminated =>
        /\ status = "exit0"
        /\ Len(values) > 0 =>
              /\ [k \in 1..Len(Report) |-> Report[k].prefix] = ReportOrder
              /\ Report[1].val = Len(values)
              /\ Report[5].val = (IF is_strictly_increasing(values) THEN "YES" ELSE "NO")

(* C6 on the runs in which no signed overflow traps.                       *)
C6_WhenNoTrap == pc = "done" => C6_SevenLinesAndExitZero

(* C7: with an empty vector the program logs the usage hint once, writes   *)
(* no report line, calls none of compute_stats, is_strictly_increasing,    *)
(* add and multiply, and exits with status 0; with no argument at all the  *)
(* hint is the only line of output.                                        *)
C7_NoNumbers ==
    Len(values) = 0 /\ pc # "parse_args" =>
        /\ calls = {}
        /\ Len(Report) = 0
        /\ pc \in {"main_23", "done"}
        /\ pc = "done" =>
              /\ status = "exit0"
              /\ Len(SelectSeq(out, IsHint)) = 1
              /\ IsHint(out[Len(out)])
              /\ Len(out) = Len(Warnings) + 1
              /\ (argv = <<>> => Len(out) = 1)

C7_Witness ==
    /\ pc = "done"
    /\ Len(argv) = 2
    /\ Len(values) = 0
    /\ Len(out) = 3
    /\ IsHint(out[3])

(* C8: the value printed as "Sum via add()" is the left fold of add over   *)
(* the vector from 0 and the value printed as "Sum * 2 via multiply()" is  *)
(* multiply(sum, 2), add and multiply returning a + b and a * b wrapped    *)
(* modulo 2^32: once the loop over a non-empty vector is left the sum is   *)
(* the wrapped fold, and a run that has ended has printed it and its       *)
(* wrapped double.                                                         *)
C8_WrappedSumAndDouble ==
    LET n == Len(values)
    IN  /\ (pc \in {"main_43", "main_44", "main_46", "done", "aborted"} /\ n > 0) =>
              sum = WrapFold(values, n)
        /\ (Terminated /\ n > 0) =>
              /\ \E k \in 1..Len(out) :
                    /\ out[k].prefix = "Sum via add(): "
                    /\ out[k].val = WrapFold(values, n)
              /\ \E k \in 1..Len(out) :
                    /\ out[k].prefix = "Sum * 2 via multiply(): "
                    /\ out[k].val = WrapMul(WrapFold(values, n), 2)

(* C8, the part that does not rest on overflow: when no step of the fold   *)
(* and not the doubling leaves the int range, the run ends normally and    *)
(* the printed sum is the exact sum and the printed double twice it.       *)
C8_ExactWhenInRange ==
    LET n == Len(values)
    IN  (Terminated /\ n > 0 /\ FoldFits(values, n) /\ MulFits(WrapFold(values, n), 2)) =>
            /\ pc = "done"
            /\ LL(Report[6].val) = ExactSum(values)
            /\ Report[7].val = 2 * Report[6].val

(* C9, the returned string: trim(s) is the longest contiguous part of s    *)
(* that neither begins nor ends with a space, tab, newline or carriage     *)
(* return: empty when s has no other character, interior white space kept  *)
(* (trim("  a b  ") is "a b"), and trim(trim(s)) = trim(s).                *)
C9_TrimResult ==
    Called("trim") =>
        LET cand == { <<a, b>> \in (1..Len(input)) \X (1..Len(input)) :
                         a <= b /\ input[a] \notin TrimSet /\ input[b] \notin TrimSet }
        IN  /\ (cand = {} => result = <<>>)
            /\ (cand # {} =>
                   \E c \in cand :
                      /\ result = SubSeq(input, c[1], c[2])
                      /\ \A d \in cand : d[2] - d[1] <= c[2] - c[1])
            /\ trim(result) = result
            /\ trim(<<" ", " ", "a", " ", "b", " ", " ">>) = <<"a", " ", "b">>

(* C9 in full: the result is as described after every call of trim, and   *)
(* no step changes the argument string.                                    *)
C9_Trim == [](C9_TrimResult) /\ [][input' = input]_vars

C9_Witness ==
    /\ Called("trim")
    /\ input = <<" ", "a", "\t", "b", "\n">>
    /\ result = <<"a", "\t", "b">>

(* C10: a token that denotes an integer outside the int range is handled   *)
(* like a non-numeric one: it is skipped with one warning and adds no      *)
(* value, never wrapped, truncated or clamped into the vector.             *)
C10_OutOfRangeSkipped ==
    /\ \A k \in 1..Processed : DenotesOutOfRange(argv[k]) => Fails(argv[k])
    /\ SelectSeq(WarnedTokens, DenotesOutOfRange) = SelectSeq(Handled, DenotesOutOfRange)
    /\ Len(values) + Len(SelectSeq(Handled, DenotesOutOfRange)) <= Processed
    /\ \A k \in 1..Len(values) : IntMin <= values[k] /\ values[k] <= IntMax

C10_Witness ==
    /\ pc = "done"
    /\ Len(argv) = 3
    /\ DenotesOutOfRange(argv[1]) /\ argv[1][1] = "-"
    /\ DenotesOutOfRange(argv[3]) /\ argv[3][1] = "2"
    /\ values = <<IntMax>>
    /\ Len(Warnings) = 2

=============================================================================
